---------------------------- MODULE Spec2Model ----------------------------
(***************************************************************************)
(* MemoryBox client (frontend/src/App.jsx): the App component as a state   *)
(* machine.  React state cells, the two ref cells, the two interval        *)
(* timers, the key listener, localStorage and the requests in flight are   *)
(* the variables; every event handler, timer callback and fetch            *)
(* continuation is one action.  A handler's state updates, the re-render   *)
(* they cause and the effects of that render (the ref mirror of line 129,  *)
(* the theme effect of lines 71-79) are committed within the action of     *)
(* the handler.                                                            *)
(***************************************************************************)
EXTENDS Integers, Sequences, FiniteSets, Bags, TLC

VARIABLES
    text,           \* useState('')      editor text, a sequence of characters
    ttlMinutes,     \* useState(1)
    selectedTag,    \* useState('')
    notes,          \* useState([])      the note cache, in display order
    loading,        \* useState(false)
    dark,           \* useState(false)
    submitRef,      \* useRef(() => {})  the submit closure the shortcut calls
    fetchNotesRef,  \* useRef(() => {})
    storage,        \* localStorage['memorybox:dark']
    phase,          \* "init" | "rerender" | "mounted" | "unmounted"
    pollTimer,      \* the 3000 ms interval is set
    tickTimer,      \* the 1000 ms interval is set
    keyListener,    \* onKey is registered on window
    listReqs,       \* GET /notes requests in flight, in issue order
    createReqs,     \* POST /notes requests in flight: the bag of their payloads
    deleteReqs,     \* DELETE /notes/{id} requests in flight: their ids
    toast,          \* the notification the last step raised ("none" if none)
    lastOp,         \* the handler that ran last
    lastSnap,       \* the response body, when the last step applied a list response
    ticked,         \* ids whose cached ttl holds a local decrement
    overwrote,      \* ids with a local decrement that the last step's replace overwrote
    dropped,        \* ids the cache held that the last step's replace removed
    call,           \* a function of the module applied on its own: name and argument
    ret             \* what that application returned

vars == << text, ttlMinutes, selectedTag, notes, loading, dark, submitRef,
           fetchNotesRef, storage, phase, pollTimer, tickTimer, keyListener,
           listReqs, createReqs, deleteReqs, toast, lastOp, lastSnap, ticked,
           overwrote, dropped, call, ret >>

(***************************************************************************)
(* Bounds of the model.                                                    *)
(***************************************************************************)
MaxInflight == 2      \* list requests outstanding at once
MaxCreates == 2       \* create requests outstanding at once
MaxTtl == 2           \* highest ttl the server reports

(***************************************************************************)
(* Program constants.                                                      *)
(***************************************************************************)
DefaultTtlMinutes == 1
TagIds == {"", "idea", "goal", "vent", "note"}

\* () => {}, the first value of both ref cells (lines 36-37)
NoopFetch == "noop"
NoopRef == [fn |-> "noop", text |-> <<>>, ttlMinutes |-> DefaultTtlMinutes, selectedTag |-> ""]

(***************************************************************************)
(* Input classes: what the user types and what the server sends.           *)
(***************************************************************************)
Num(k) == [kind |-> "number", v |-> k]
Str(s) == [kind |-> "string", v |-> s]
Null == [kind |-> "null", v |-> 0]

\* ttl / orig_ttl as they arrive in one record of the response body
NumPairs == {<<Num(t), Num(MaxTtl)>> : t \in (0 - 2)..MaxTtl}
OddPairs == {<<Str(<<"1">>), Str(<<"2">>)>>, <<Str(<<"x">>), Num(MaxTtl)>>,
             <<Null, Num(MaxTtl)>>}
RawPairs == NumPairs \cup OddPairs

RawNote(i, p) ==
    [id |-> i, text |-> "n", tag |-> "idea", ttl |-> p[1], orig_ttl |-> p[2]]

\* response bodies: note 1 in any form, note 2 counting down or without
\* expiry, either of them or both, in id order
NoteIds == {1, 2}
PairsOf(i) ==
    IF i = 1 THEN RawPairs
    ELSE {<<Num(MaxTtl), Num(MaxTtl)>>, <<Num(0 - 1), Num(MaxTtl)>>}
Snapshots ==
    {<<>>}
        \cup UNION {{<<RawNote(i, p)>> : p \in PairsOf(i)} : i \in NoteIds}
        \cup {<<RawNote(1, p), RawNote(2, r)>> : p \in PairsOf(1), r \in PairsOf(2)}
FewSnapshots == {<<RawNote(1, <<Num(0), Num(MaxTtl)>>)>>}

Texts == {<<>>, <<" ">>, <<"a">>, <<" ", "b", " ">>}
FewTexts == {<<"a">>}
Minutes == {1, 2}
FewMinutes == {DefaultTtlMinutes}
TagChoices == {"", "idea"}
FewTags == {""}

(***************************************************************************)
(* Helpers.                                                                *)
(***************************************************************************)
RemoveAt(s, i) == SubSeq(s, 1, i - 1) \o SubSeq(s, i + 1, Len(s))

Max(a, b) == IF a >= b THEN a ELSE b

IdSet(s) == {s[i].id : i \in DOMAIN s}

\* String.prototype.trim on a sequence of characters
RECURSIVE TrimLeft(_)
TrimLeft(s) ==
    IF s = <<>> THEN <<>>
    ELSE IF Head(s) = " " THEN TrimLeft(Tail(s)) ELSE s

RECURSIVE TrimRight(_)
TrimRight(s) ==
    IF s = <<>> THEN <<>>
    ELSE IF s[Len(s)] = " " THEN TrimRight(SubSeq(s, 1, Len(s) - 1)) ELSE s

Trim(s) == TrimRight(TrimLeft(s))

\* parseInt(s, 10), as [nan, v]
IsDigit(c) == c \in {"0", "1", "2", "3", "4", "5", "6", "7", "8", "9"}

DigitVal(c) ==
    CASE c = "0" -> 0 [] c = "1" -> 1 [] c = "2" -> 2 [] c = "3" -> 3
      [] c = "4" -> 4 [] c = "5" -> 5 [] c = "6" -> 6 [] c = "7" -> 7
      [] c = "8" -> 8 [] c = "9" -> 9

RECURSIVE Digits(_, _)
Digits(s, acc) ==
    IF s = <<>> \/ ~IsDigit(Head(s)) THEN acc
    ELSE Digits(Tail(s), 10 * acc + DigitVal(Head(s)))

ParseInt(s0) ==
    LET s == TrimLeft(s0)
        neg == s # <<>> /\ Head(s) = "-"
        body == IF s # <<>> /\ Head(s) \in {"-", "+"} THEN Tail(s) ELSE s
    IN  IF body = <<>> \/ ~IsDigit(Head(body)) THEN [nan |-> TRUE, v |-> 0]
        ELSE [nan |-> FALSE,
              v |-> IF neg THEN 0 - Digits(body, 0) ELSE Digits(body, 0)]

(***************************************************************************)
(* fetchNotes, lines 46-51: the normalisation of one record.               *)
(***************************************************************************)
\* x || 0 followed by parseInt(_, 10) || 0, for a value that is not a number
CoerceInt(raw) ==
    IF raw.kind = "string" /\ raw.v # <<>>
    THEN LET r == ParseInt(raw.v) IN IF r.nan THEN 0 ELSE r.v
    ELSE 0

normalizeTtl(raw) == IF raw.kind = "number" THEN raw.v ELSE CoerceInt(raw)

normalizeNote(n) ==
    [id |-> n.id, text |-> n.text, tag |-> n.tag,
     ttl |-> normalizeTtl(n.ttl), orig_ttl |-> normalizeTtl(n.orig_ttl)]

normalized(data) == [i \in DOMAIN data |-> normalizeNote(data[i])]

\* a plausible slip: the snapshot is merged into the cache instead of replacing it
setNotesMerge(prev, data) ==
    LET fresh == normalized(data)
        keep == SelectSeq(prev, LAMBDA n : n.id \notin IdSet(fresh))
    IN  keep \o fresh

\* a plausible slip: a cached note keeps its locally counted ttl
setNotesKeepLocal(prev, data) ==
    LET fresh == normalized(data)
        Local(n) ==
            IF \E j \in DOMAIN prev : prev[j].id = n.id
            THEN LET j == CHOOSE j \in DOMAIN prev : prev[j].id = n.id
                 IN  [n EXCEPT !.ttl = prev[j].ttl]
            ELSE n
    IN  [i \in DOMAIN fresh |-> Local(fresh[i])]

\* setNotes(normalized), line 51
setNotesFromPoll(prev, data) == normalized(data)

(***************************************************************************)
(* The ticker's updater, lines 84-91.                                      *)
(***************************************************************************)
\* a plausible slip: the guard n.ttl > 0 is left out
tickNoteUnguarded(n) == [n EXCEPT !.ttl = n.ttl - 1]

tickNote(n) == IF n.ttl > 0 THEN [n EXCEPT !.ttl = n.ttl - 1] ELSE n

tickAll(prev) ==
    IF Len(prev) = 0 THEN prev ELSE [i \in DOMAIN prev |-> tickNote(prev[i])]

(***************************************************************************)
(* submit and its ref mirror, lines 97-129.                                *)
(***************************************************************************)
\* the values a submit callback closes over (its dependency list, line 128)
submitClosure(t, m, g) ==
    [fn |-> "submit", text |-> t, ttlMinutes |-> m, selectedTag |-> g]

\* a plausible slip: the mirror effect never re-runs, the first closure stays
submitRefEffectStale(cur, submitNow) == IF cur = NoopRef THEN submitNow ELSE cur

\* useEffect(() => { submitRef.current = submit }, [submit]), line 129
submitRefEffect(cur, submitNow) == submitNow

\* Math.floor(x) and Math.ceil(x) of the fraction x = n / d, d > 0
FloorDiv(n, d) == n \div d
CeilDiv(n, d) == 0 - ((0 - n) \div d)

\* Math.max(1, Math.floor(Number(ttlMinutes) * 60)), line 105, of the
\* fraction q = num / den of a minute
ttlSecondsOf(q) == Max(1, FloorDiv(q.num * 60, q.den))

\* the same of the whole minutes the slider yields
ttlSeconds(m) == ttlSecondsOf([num |-> m, den |-> 1])

payloadOf(c) ==
    [text |-> Trim(c.text), ttl |-> ttlSeconds(c.ttlMinutes), tag |-> c.selectedTag]

\* the ref cell after the render that follows a change of the editor state
Mirror(t, m, g) ==
    IF phase = "mounted" THEN submitRefEffect(submitRef, submitClosure(t, m, g))
    ELSE submitRef

NewListReq == [stale |-> FALSE]

\* fetchNotesRef.current(): the request of fetchNotes, line 42
IssueList(reqs) == IF fetchNotesRef = NoopFetch THEN reqs ELSE Append(reqs, NewListReq)

Hist(op, t) ==
    /\ lastOp' = op
    /\ toast' = t
    /\ lastSnap' = <<>>
    /\ overwrote' = {}
    /\ dropped' = {}
    /\ UNCHANGED << call, ret >>

\* no function is applied on its own
NoCall == [fn |-> "none"]
NoRet == [done |-> FALSE]
Returned(v) == [done |-> TRUE, v |-> v]

AppVars == << text, ttlMinutes, selectedTag, notes, loading, dark, submitRef,
              fetchNotesRef, storage, phase, pollTimer, tickTimer, keyListener,
              listReqs, createReqs, deleteReqs, toast, lastOp, lastSnap, ticked,
              overwrote, dropped >>

EditorVars == << text, ttlMinutes, selectedTag, submitRef >>
MountVars == << fetchNotesRef, phase, pollTimer, tickTimer, keyListener >>
ThemeVars == << dark, storage >>
ReqVars == << listReqs, createReqs, deleteReqs >>

(***************************************************************************)
(* Initial state: the values of the first render, before its effects.      *)
(***************************************************************************)
AppInit ==
    /\ text = <<>>
    /\ ttlMinutes = DefaultTtlMinutes
    /\ selectedTag = ""
    /\ notes = <<>>
    /\ loading = FALSE
    /\ dark = FALSE
    /\ submitRef = NoopRef
    /\ fetchNotesRef = NoopFetch
    /\ storage \in {"absent", "1", "0"}
    /\ phase = "init"
    /\ pollTimer = FALSE
    /\ tickTimer = FALSE
    /\ keyListener = FALSE
    /\ listReqs = <<>>
    /\ createReqs = EmptyBag
    /\ deleteReqs = <<>>
    /\ toast = "none"
    /\ lastOp = "init"
    /\ lastSnap = <<>>
    /\ ticked = {}
    /\ overwrote = {}
    /\ dropped = {}

Init ==
    /\ AppInit
    /\ call = NoCall
    /\ ret = NoRet

\* line 62: what the startup effect reads from the stored theme
loadDark(stored) == stored = "1"

\* a plausible slip: the light theme is written down instead of removed
storeDarkWritesZero(d) == IF d THEN "1" ELSE "0"

\* the theme effect of lines 71-79: the key after it has run with dark = d
storeDark(d) == IF d THEN "1" ELSE "absent"

(***************************************************************************)
(* The effects of the first commit, in source order: lines 57, 60-69,      *)
(* 71-79, 82-94, 129, 146-159.                                             *)
(***************************************************************************)
Mount ==
    /\ phase = "init"
    /\ fetchNotesRef' = "fetchNotes"
    /\ listReqs' = Append(listReqs, NewListReq)
    /\ pollTimer' = TRUE
    /\ storage' = storeDark(dark)
    /\ tickTimer' = TRUE
    /\ submitRef' = submitRefEffect(submitRef, submitClosure(text, ttlMinutes, selectedTag))
    /\ keyListener' = TRUE
    /\ phase' = IF loadDark(storage) THEN "rerender" ELSE "mounted"
    /\ Hist("mount", "none")
    /\ UNCHANGED << text, ttlMinutes, selectedTag, notes, loading, dark,
                    createReqs, deleteReqs, ticked >>

\* the render that setDark(true) of line 63 asked for, and its theme effect
DarkRerender ==
    /\ phase = "rerender"
    /\ dark' = TRUE
    /\ storage' = storeDark(TRUE)
    /\ phase' = "mounted"
    /\ Hist("darkRerender", "none")
    /\ UNCHANGED << EditorVars, notes, loading, fetchNotesRef, pollTimer,
                    tickTimer, keyListener, ReqVars, ticked >>

\* the cleanups of lines 68, 93 and 158
Unmount ==
    /\ phase = "mounted"
    /\ phase' = "unmounted"
    /\ pollTimer' = FALSE
    /\ tickTimer' = FALSE
    /\ keyListener' = FALSE
    /\ Hist("unmount", "none")
    /\ UNCHANGED << EditorVars, notes, loading, ThemeVars, fetchNotesRef,
                    ReqVars, ticked >>

\* onClick of the theme button, line 201, and the theme effect, lines 71-79
ToggleDark ==
    /\ phase = "mounted"
    /\ dark' = ~dark
    /\ storage' = storeDark(~dark)
    /\ Hist("toggleDark", "none")
    /\ UNCHANGED << EditorVars, notes, loading, MountVars, ReqVars, ticked >>

(***************************************************************************)
(* Poller and ticker.                                                      *)
(***************************************************************************)
\* the interval callback of line 67
PollFire(cap) ==
    /\ pollTimer
    /\ Len(listReqs) < cap.lists
    /\ listReqs' = IssueList(listReqs)
    /\ Hist("pollFire", "none")
    /\ UNCHANGED << EditorVars, notes, loading, ThemeVars, MountVars,
                    createReqs, deleteReqs, ticked >>

\* the requests still in flight once request i has been answered; with
\* applied, the requests issued before it are from now on out of date
Answered(reqs, i, applied) ==
    LET marked == [j \in DOMAIN reqs |->
                      IF applied /\ j < i THEN [reqs[j] EXCEPT !.stale = TRUE]
                      ELSE reqs[j]]
    IN  RemoveAt(marked, i)

\* fetchNotes, lines 42-51, from the response on: res.ok and a body
ListOk(i, data) ==
    /\ notes' = setNotesFromPoll(notes, data)
    /\ listReqs' = Answered(listReqs, i, TRUE)
    /\ lastOp' = "listOk"
    /\ toast' = "none"
    /\ lastSnap' = data
    /\ overwrote' = ticked \cap IdSet(data)
    /\ dropped' = IdSet(notes) \ IdSet(data)
    /\ UNCHANGED << call, ret >>
    /\ ticked' = {}
    /\ UNCHANGED << EditorVars, loading, ThemeVars, MountVars, createReqs,
                    deleteReqs >>

\* a plausible slip: a response that is not ok clears the poll interval
ListFailStopsPolling(i) ==
    /\ listReqs' = Answered(listReqs, i, FALSE)
    /\ pollTimer' = FALSE
    /\ Hist("listFail", "none")
    /\ UNCHANGED << EditorVars, notes, loading, ThemeVars, fetchNotesRef,
                    phase, tickTimer, keyListener, createReqs, deleteReqs,
                    ticked >>

\* fetchNotes, line 43: the response is not ok
ListFail(i) ==
    /\ listReqs' = Answered(listReqs, i, FALSE)
    /\ Hist("listFail", "none")
    /\ UNCHANGED << EditorVars, notes, loading, ThemeVars, MountVars,
                    createReqs, deleteReqs, ticked >>

\* a plausible slip: the catch block empties the list and tells the user
ListErrSurfaced(i) ==
    /\ listReqs' = Answered(listReqs, i, FALSE)
    /\ notes' = <<>>
    /\ ticked' = {}
    /\ Hist("listFail", "fetchFailed")
    /\ UNCHANGED << EditorVars, loading, ThemeVars, MountVars, createReqs,
                    deleteReqs >>

\* fetchNotes, lines 52-54: fetch or res.json() threw
ListErr(i) ==
    /\ listReqs' = Answered(listReqs, i, FALSE)
    /\ Hist("listFail", "none")
    /\ UNCHANGED << EditorVars, notes, loading, ThemeVars, MountVars,
                    createReqs, deleteReqs, ticked >>

\* the interval callback of lines 83-92
Tick ==
    /\ tickTimer
    /\ notes' = tickAll(notes)
    /\ ticked' = ticked \cup {notes[i].id : i \in {j \in DOMAIN notes : notes[j].ttl > 0}}
    /\ Hist("tick", "none")
    /\ UNCHANGED << EditorVars, loading, ThemeVars, MountVars, ReqVars >>

(***************************************************************************)
(* The editor: lines 216, 231, 243, 260 and the Escape branch of onKey.    *)
(***************************************************************************)
Edit(t, m, g) ==
    /\ text' = t
    /\ ttlMinutes' = m
    /\ selectedTag' = g
    /\ submitRef' = Mirror(t, m, g)
    /\ UNCHANGED << notes, loading, ThemeVars, MountVars, ReqVars, ticked >>

\* onChange of the textarea, line 216
SetText(t) ==
    /\ phase = "mounted"
    /\ Edit(t, ttlMinutes, selectedTag)
    /\ Hist("edit", "none")

\* onChange of the slider, line 231
SetTtlMinutes(m) ==
    /\ phase = "mounted"
    /\ Edit(text, m, selectedTag)
    /\ Hist("edit", "none")

\* onClick of a tag chip, line 243
ClickTag(g) ==
    /\ phase = "mounted"
    /\ Edit(text, ttlMinutes, IF selectedTag = g THEN "" ELSE g)
    /\ Hist("edit", "none")

\* onClick of the Clear button, line 260
ClearEditor ==
    /\ phase = "mounted"
    /\ Edit(<<>>, DefaultTtlMinutes, "")
    /\ Hist("edit", "none")

\* onKey, lines 152-155
KeyEscape ==
    /\ keyListener
    /\ Edit(<<>>, ttlMinutes, selectedTag)
    /\ Hist("edit", "none")

(***************************************************************************)
(* submit, lines 97-128.                                                   *)
(***************************************************************************)
\* a plausible slip: the text is tested without trimming it
isBlankUntrimmed(t) == t = <<>>

\* !text.trim(), line 99
isBlank(t) == Trim(t) = <<>>

\* submit as the closure c, up to the await of line 107
SubmitCall(c, op, cap) ==
    IF isBlank(c.text)
    THEN /\ Hist(op, "validation")
         /\ UNCHANGED << EditorVars, notes, loading, ThemeVars, MountVars,
                         ReqVars, ticked >>
    ELSE /\ BagCardinality(createReqs) < cap.creates
         /\ loading' = TRUE
         /\ createReqs' = createReqs (+) SetToBag({payloadOf(c)})
         /\ Hist(op, "none")
         /\ UNCHANGED << EditorVars, notes, ThemeVars, MountVars, listReqs,
                         deleteReqs, ticked >>

\* onSubmit of the form, line 211; the Save button is disabled while loading
SubmitForm(cap) ==
    /\ phase = "mounted"
    /\ ~loading
    /\ SubmitCall(submitClosure(text, ttlMinutes, selectedTag), "submitForm", cap)

\* onKey, lines 150-151: modifier + Enter
KeySubmit(cap) ==
    /\ keyListener
    /\ submitRef.fn = "submit"
    /\ SubmitCall(submitRef, "keySubmit", cap)

\* a plausible slip: the success branch leaves out fetchNotesRef.current()
CreateOkNoResync(p, cap) ==
    /\ Len(listReqs) < cap.lists
    /\ createReqs' = createReqs (-) SetToBag({p})
    /\ text' = <<>>
    /\ selectedTag' = ""
    /\ ttlMinutes' = DefaultTtlMinutes
    /\ submitRef' = Mirror(<<>>, DefaultTtlMinutes, "")
    /\ loading' = FALSE
    /\ Hist("createOk", "saved")
    /\ UNCHANGED << notes, ThemeVars, MountVars, listReqs, deleteReqs, ticked >>

\* lines 112-118 and 126: the response is ok
CreateOk(p, cap) ==
    /\ Len(listReqs) < cap.lists
    /\ createReqs' = createReqs (-) SetToBag({p})
    /\ text' = <<>>
    /\ selectedTag' = ""
    /\ ttlMinutes' = DefaultTtlMinutes
    /\ submitRef' = Mirror(<<>>, DefaultTtlMinutes, "")
    /\ listReqs' = IssueList(listReqs)
    /\ loading' = FALSE
    /\ Hist("createOk", "saved")
    /\ UNCHANGED << notes, ThemeVars, MountVars, deleteReqs, ticked >>

\* a plausible slip: the editor is cleared whatever the response
CreateFailClears(p) ==
    /\ createReqs' = createReqs (-) SetToBag({p})
    /\ text' = <<>>
    /\ selectedTag' = ""
    /\ ttlMinutes' = DefaultTtlMinutes
    /\ submitRef' = Mirror(<<>>, DefaultTtlMinutes, "")
    /\ loading' = FALSE
    /\ Hist("createFail", "saveFailed")
    /\ UNCHANGED << notes, ThemeVars, MountVars, listReqs, deleteReqs, ticked >>

\* lines 119-121 and 126: the response is not ok
CreateFail(p) ==
    /\ createReqs' = createReqs (-) SetToBag({p})
    /\ loading' = FALSE
    /\ Hist("createFail", "saveFailed")
    /\ UNCHANGED << EditorVars, notes, ThemeVars, MountVars, listReqs,
                    deleteReqs, ticked >>

\* lines 122-126: fetch threw
CreateErr(p) ==
    /\ createReqs' = createReqs (-) SetToBag({p})
    /\ loading' = FALSE
    /\ Hist("createFail", "saveFailed")
    /\ UNCHANGED << EditorVars, notes, ThemeVars, MountVars, listReqs,
                    deleteReqs, ticked >>

(***************************************************************************)
(* remove, lines 132-143.                                                  *)
(***************************************************************************)
\* a plausible slip: the note is taken out of the cache at once
RemoveOptimistic(id, cap) ==
    /\ phase = "mounted"
    /\ id \in IdSet(notes)
    /\ Len(deleteReqs) < cap.deletes
    /\ deleteReqs' = Append(deleteReqs, id)
    /\ notes' = SelectSeq(notes, LAMBDA n : n.id # id)
    /\ Hist("remove", "none")
    /\ UNCHANGED << EditorVars, loading, ThemeVars, MountVars, listReqs,
                    createReqs, ticked >>

\* onClick of a note's delete button, line 304, up to the await of line 134
Remove(id, cap) ==
    /\ phase = "mounted"
    /\ id \in IdSet(notes)
    /\ Len(deleteReqs) < cap.deletes
    /\ deleteReqs' = Append(deleteReqs, id)
    /\ Hist("remove", "none")
    /\ UNCHANGED << EditorVars, notes, loading, ThemeVars, MountVars,
                    listReqs, createReqs, ticked >>

\* the rest of remove: the toast of its outcome, then the finally of line 141
DeleteDone(i, op, t, cap) ==
    /\ Len(listReqs) < cap.lists
    /\ deleteReqs' = RemoveAt(deleteReqs, i)
    /\ listReqs' = IssueList(listReqs)
    /\ Hist(op, t)
    /\ UNCHANGED << EditorVars, notes, loading, ThemeVars, MountVars,
                    createReqs, ticked >>

DeleteOk(i, cap) == DeleteDone(i, "deleteOk", "deleted", cap)

DeleteFail(i, cap) == DeleteDone(i, "deleteFail", "deleteFailed", cap)

\* a plausible slip: the resync sits in the try block, not in finally
DeleteErrNoResync(i, cap) ==
    /\ Len(listReqs) < cap.lists
    /\ deleteReqs' = RemoveAt(deleteReqs, i)
    /\ Hist("deleteFail", "deleteFailed")
    /\ UNCHANGED << EditorVars, notes, loading, ThemeVars, MountVars,
                    listReqs, createReqs, ticked >>

DeleteErr(i, cap) == DeleteDone(i, "deleteFail", "deleteFailed", cap)

(***************************************************************************)
(* The program.                                                            *)
(***************************************************************************)
\* the bounds on the requests in flight that a specification explores
Caps(l, c, d) == [lists |-> l, creates |-> c, deletes |-> d]

Prog(texts, minutes, tags, snapshots, cap) ==
    \/ Mount
    \/ Unmount
    \/ PollFire(cap)
    \/ \E i \in DOMAIN listReqs : \E data \in snapshots : ListOk(i, data)
    \/ \E i \in DOMAIN listReqs : ListFail(i)
    \/ \E i \in DOMAIN listReqs : ListErr(i)
    \/ Tick
    \/ \E t \in texts : SetText(t)
    \/ \E m \in minutes : SetTtlMinutes(m)
    \/ \E g \in tags : ClickTag(g)
    \/ ClearEditor
    \/ KeyEscape
    \/ SubmitForm(cap)
    \/ KeySubmit(cap)
    \/ \E p \in BagToSet(createReqs) : CreateOk(p, cap)
    \/ \E p \in BagToSet(createReqs) : CreateFail(p)
    \/ \E p \in BagToSet(createReqs) : CreateErr(p)
    \/ \E id \in NoteIds : Remove(id, cap)
    \/ \E i \in DOMAIN deleteReqs : DeleteOk(i, cap)
    \/ \E i \in DOMAIN deleteReqs : DeleteFail(i, cap)
    \/ \E i \in DOMAIN deleteReqs : DeleteErr(i, cap)

\* a first visit: nothing is stored under memorybox:dark
InitFresh == Init /\ storage = "absent"

\* the client against every response body, with one editor input and one
\* create request and one delete request at a time
Next == Prog(FewTexts, FewMinutes, FewTags, Snapshots, Caps(MaxInflight, 1, 1))

Spec == InitFresh /\ [][Next]_vars

\* the client with every editor input, against one response body, with one
\* list request and one delete request at a time
NextEditor == Prog(Texts, Minutes, TagChoices, FewSnapshots, Caps(1, MaxCreates, 1))

SpecEditor == InitFresh /\ [][NextEditor]_vars

\* the client with its theme button, started on every stored theme, with one
\* editor input, one response body and one request of each kind at a time
NextTheme ==
    \/ Prog(FewTexts, FewMinutes, FewTags, FewSnapshots, Caps(1, 1, 1))
    \/ DarkRerender
    \/ ToggleDark

SpecTheme == Init /\ [][NextTheme]_vars

\* the client against one response body, with one editor input
NextLive == Prog(FewTexts, FewMinutes, FewTags, FewSnapshots, Caps(MaxInflight, 1, 1))

\* some list request in flight is answered
ListAnswered ==
    \E i \in DOMAIN listReqs :
        \/ \E data \in FewSnapshots : ListOk(i, data)
        \/ ListFail(i)
        \/ ListErr(i)

\* The interval of line 67 fires for as long as it is not cleared, whatever
\* is in flight; here it can fire only below the bound on the list requests
\* in flight, so it is strongly fair and the requests in flight are answered.
SpecLive ==
    /\ InitFresh
    /\ [][NextLive]_vars
    /\ SF_vars(PollFire(Caps(MaxInflight, 1, 1)))
    /\ WF_vars(ListAnswered)


(***************************************************************************)
(* Functions applied on their own.                                         *)
(***************************************************************************)
\* the app as it is at a first visit, with f applied to one of args
InitCall(f, args) ==
    /\ AppInit
    /\ storage = "absent"
    /\ call \in {[fn |-> f, arg |-> x] : x \in args}
    /\ ret = NoRet

\* fractions of a minute: whole, quarter and hundredth minutes
MaxNum == 150
Fractions == {[num |-> n, den |-> d] : n \in 1..MaxNum, d \in {1, 4, 100}}

\* line 105 applied to call.arg
CallTtlSeconds ==
    /\ call.fn = "ttlSeconds"
    /\ ~ret.done
    /\ ret' = Returned(ttlSecondsOf(call.arg))
    /\ UNCHANGED << AppVars, call >>

SpecTtl == InitCall("ttlSeconds", Fractions) /\ [][CallTtlSeconds]_vars

(***************************************************************************)
(* filtered, lines 161-172, on texts and tags as sequences of characters.  *)
(***************************************************************************)
\* String.prototype.toLowerCase, on the letters the inputs use
LowerChar(c) ==
    CASE c = "A" -> "a" [] c = "D" -> "d" [] c = "E" -> "e"
      [] c = "G" -> "g" [] c = "I" -> "i" [] c = "O" -> "o"
      [] OTHER -> c

toLowerCase(t) == [i \in DOMAIN t |-> LowerChar(t[i])]

\* String.prototype.includes
includes(hay, needle) ==
    \E i \in 1..(Len(hay) - Len(needle) + 1) :
        SubSeq(hay, i, i + Len(needle) - 1) = needle

\* a plausible slip: the query is compared without folding the case
keepsCaseSensitive(n, q, showOnlyTag) ==
    /\ Trim(q) # <<>> => (includes(n.text, q) \/ includes(n.tag, q))
    /\ showOnlyTag # <<>> => n.tag = showOnlyTag

\* the callback of notes.filter, lines 161-172
keeps(n, q, showOnlyTag) ==
    IF /\ Trim(q) # <<>>
       /\ ~(\/ includes(toLowerCase(n.text), toLowerCase(q))
            \/ includes(toLowerCase(n.tag), toLowerCase(q)))
    THEN FALSE
    ELSE IF showOnlyTag # <<>> THEN n.tag = showOnlyTag
    ELSE TRUE

\* Array.prototype.filter: a new array of the kept elements, in order
RECURSIVE filtered(_, _, _)
filtered(ns, q, showOnlyTag) ==
    IF ns = <<>> THEN <<>>
    ELSE IF keeps(Head(ns), q, showOnlyTag)
         THEN <<Head(ns)>> \o filtered(Tail(ns), q, showOnlyTag)
         ELSE filtered(Tail(ns), q, showOnlyTag)

Idea == <<"i", "d", "e", "a">>
Goal == <<"g", "o", "a", "l">>
FilterTags == {<<>>, Idea, Goal}
FilterTexts == {<<"I", "D", "E", "A">>, <<"g", "o", " ", "x">>}
Queries == {<<>>, <<" ">>, Idea, <<"G", "O">>, <<" ", "x">>, <<"o", "a">>}

FilterNotes(i) == {[id |-> i, text |-> t, tag |-> g] : t \in FilterTexts, g \in FilterTags}
FilterCaches ==
    {<<>>}
        \cup {<<n>> : n \in FilterNotes(1)}
        \cup {<<n, m>> : n \in FilterNotes(1), m \in FilterNotes(2)}
        \cup {<<m, n>> : n \in FilterNotes(1), m \in FilterNotes(2)}
FilterArgs ==
    {[notes |-> c, q |-> x, showOnlyTag |-> g] :
        c \in FilterCaches, x \in Queries, g \in FilterTags}

\* line 161 applied to call.arg
CallFiltered ==
    /\ call.fn = "filtered"
    /\ ~ret.done
    /\ ret' = Returned(filtered(call.arg.notes, call.arg.q, call.arg.showOnlyTag))
    /\ UNCHANGED << AppVars, call >>

SpecFilter == InitCall("filtered", FilterArgs) /\ [][CallFiltered]_vars

(***************************************************************************)
(* fmtTTL, lines 15-22; its result is a sequence of characters.            *)
(***************************************************************************)
MaxSecs == 7300

DigitChar(d) ==
    CASE d = 0 -> "0" [] d = 1 -> "1" [] d = 2 -> "2" [] d = 3 -> "3"
      [] d = 4 -> "4" [] d = 5 -> "5" [] d = 6 -> "6" [] d = 7 -> "7"
      [] d = 8 -> "8" [] d = 9 -> "9"

\* the decimal digits a template literal writes for a whole number
RECURSIVE Decimal(_)
Decimal(n) ==
    IF n < 0 THEN <<"-">> \o Decimal(0 - n)
    ELSE IF n < 10 THEN <<DigitChar(n)>>
    ELSE Decimal(n \div 10) \o <<DigitChar(n % 10)>>

InfinitySign == "U+221E"   \* the one character of the literal at line 17

\* a plausible slip: the minute and hour thresholds are inclusive
fmtTTLInclusive(secs) ==
    IF secs = Num(0 - 2) THEN <<"g", "o", "n", "e">>
    ELSE IF secs = Num(0 - 1) THEN <<InfinitySign>>
    ELSE IF secs.kind # "number" THEN <<>>
    ELSE IF secs.v <= 60 THEN Decimal(secs.v) \o <<"s">>
    ELSE IF secs.v <= 3600 THEN Decimal(FloorDiv(secs.v, 60)) \o <<"m">>
    ELSE Decimal(FloorDiv(secs.v, 3600)) \o <<"h">>

fmtTTL(secs) ==
    IF secs = Num(0 - 2) THEN <<"g", "o", "n", "e">>
    ELSE IF secs = Num(0 - 1) THEN <<InfinitySign>>
    ELSE IF secs.kind # "number" THEN <<>>
    ELSE IF secs.v < 60 THEN Decimal(secs.v) \o <<"s">>
    ELSE IF secs.v < 3600 THEN Decimal(FloorDiv(secs.v, 60)) \o <<"m">>
    ELSE Decimal(FloorDiv(secs.v, 3600)) \o <<"h">>

Seconds == {Num(k) : k \in (0 - 3)..MaxSecs} \cup {Null, Str(<<"x">>)}

\* fmtTTL applied to call.arg
CallFmtTTL ==
    /\ call.fn = "fmtTTL"
    /\ ~ret.done
    /\ ret' = Returned(fmtTTL(call.arg))
    /\ UNCHANGED << AppVars, call >>

SpecFmt == InitCall("fmtTTL", Seconds) /\ [][CallFmtTTL]_vars

(***************************************************************************)
(* Properties.                                                             *)
(***************************************************************************)
IsPrefix(s, t) == Len(s) <= Len(t) /\ SubSeq(t, 1, Len(s)) = s

\* exactly one list request was issued by the step, behind those in flight
ResyncIssued ==
    /\ Len(listReqs') = Len(listReqs) + 1
    /\ IsPrefix(listReqs, listReqs')
    /\ listReqs'[Len(listReqs')] = NewListReq

\* C1: right after a successful list response with body S is applied, the
\* ids in the cache are exactly the ids of S: every id of S is there, and
\* an id the cache held before that S lacks is gone.
C1_PollReplacesIdSet ==
    lastOp = "listOk" =>
        /\ IdSet(notes) = IdSet(lastSnap)
        /\ dropped \cap IdSet(notes) = {}

\* a response was applied that removed a cached id and kept or added another
C1_Witness ==
    /\ lastOp = "listOk"
    /\ dropped # {}
    /\ notes # <<>>

\* C2: one tick takes exactly 1 off every cached ttl above 0 and leaves a
\* ttl of 0, -1 or -2 as it is; ids, order and all other fields stay.
C2_TickDecrements ==
    [][lastOp' = "tick" =>
          /\ Len(notes') = Len(notes)
          /\ \A i \in DOMAIN notes :
                notes'[i] =
                    [notes[i] EXCEPT
                        !.ttl = IF notes[i].ttl > 0 THEN notes[i].ttl - 1
                                ELSE notes[i].ttl]]_vars

\* a tick has counted one note down beside a note without expiry
C2_Witness ==
    /\ lastOp = "tick"
    /\ Len(notes) = 2
    /\ notes[1].id \in ticked
    /\ notes[2].ttl = 0 - 1

\* C3: right after a successful list response is applied, every cached note
\* has the ttl that response reported for it (normalised), whatever local
\* decrements the cache held for that id before.
C3_PollDominatesTick ==
    lastOp = "listOk" =>
        /\ Len(notes) = Len(lastSnap)
        /\ \A i \in DOMAIN notes :
              /\ notes[i].id = lastSnap[i].id
              /\ notes[i].ttl = normalizeTtl(lastSnap[i].ttl)

\* the response replaced a note whose ttl had been counted down locally
C3_Witness ==
    /\ lastOp = "listOk"
    /\ overwrote # {}
    /\ \E i \in DOMAIN notes : notes[i].id \in overwrote /\ notes[i].ttl = MaxTtl

\* C4, as claimed: once the component is unmounted, no step changes the cache.
C4_NoCacheWriteAfterTeardown ==
    [][phase = "unmounted" => notes' = notes]_vars

\* C5: a failed poll (response not ok, or fetch threw) leaves the cache as it
\* was and raises no notification.
C5_FailedPollNoOp ==
    [][lastOp' = "listFail" => notes' = notes /\ toast' = "none"]_vars

\* a poll failed while the cache held notes
C5_Witness ==
    /\ lastOp = "listFail"
    /\ notes # <<>>
    /\ toast = "none"

C7_DeleteAlwaysResyncs ==
    [][lastOp' \in {"deleteOk", "deleteFail"} => ResyncIssued]_vars

\* a delete failed and its resync is in flight
C7_Witness ==
    /\ lastOp = "deleteFail"
    /\ toast = "deleteFailed"
    /\ listReqs # <<>>
    /\ listReqs[Len(listReqs)] = NewListReq

\* C8: only an applied list response and a tick change the cache, and only
\* an applied list response brings an id into it; submit, remove and the
\* completions of their requests leave it alone.
C8_OnlyPollAndTickWriteCache ==
    [][/\ notes' # notes => lastOp' \in {"listOk", "tick"}
       /\ ~(IdSet(notes') \subseteq IdSet(notes)) => lastOp' = "listOk"
       /\ lastOp' \in {"submitForm", "keySubmit", "createOk", "createFail",
                       "remove", "deleteOk", "deleteFail"} => notes' = notes]_vars

\* a delete was asked for and the note is still cached
C8_Witness ==
    /\ lastOp = "remove"
    /\ deleteReqs # <<>>
    /\ deleteReqs[Len(deleteReqs)] \in IdSet(notes)

\* C9: a submit whose text is blank after trimming raises the validation
\* notification, issues no request and leaves the editor, loading and the
\* cache as they were.
C9_BlankSubmitRejected ==
    [][(lastOp' \in {"submitForm", "keySubmit"} /\ Trim(text) = <<>>) =>
          /\ toast' = "validation"
          /\ UNCHANGED << listReqs, createReqs, deleteReqs >>
          /\ UNCHANGED << text, ttlMinutes, selectedTag, loading, notes >>]_vars

\* a whitespace-only text was submitted and refused, with notes in the cache
C9_Witness ==
    /\ lastOp \in {"submitForm", "keySubmit"}
    /\ toast = "validation"
    /\ text = <<" ">>
    /\ createReqs = EmptyBag
    /\ notes # <<>>

\* C10: the step that handles a successful create response resets text, tag
\* and ttlMinutes to '', '' and 1 and issues a list request itself.
C10_CreateOkResetsAndResyncs ==
    [][lastOp' = "createOk" =>
          /\ text' = <<>>
          /\ selectedTag' = ""
          /\ ttlMinutes' = DefaultTtlMinutes
          /\ ResyncIssued]_vars

\* a create succeeded: the editor is at its defaults and the resync in flight
C10_Witness ==
    /\ lastOp = "createOk"
    /\ toast = "saved"
    /\ text = <<>>
    /\ selectedTag = ""
    /\ ttlMinutes = DefaultTtlMinutes
    /\ listReqs = <<NewListReq>>

\* C11: the step that handles a failed create (response not ok, or fetch
\* threw) raises the error notification and leaves text, tag and ttlMinutes
\* exactly as they were when the response arrived.
C11_CreateFailKeepsEditor ==
    [][lastOp' = "createFail" =>
          /\ toast' = "saveFailed"
          /\ UNCHANGED << text, ttlMinutes, selectedTag >>]_vars

\* a create failed with a text, a ttl and a tag in the editor, none a default
C11_Witness ==
    /\ lastOp = "createFail"
    /\ toast = "saveFailed"
    /\ text = <<"a">>
    /\ ttlMinutes # DefaultTtlMinutes
    /\ selectedTag = "idea"

C13_TtlSentinelOrNonNegative ==
    \A i \in DOMAIN notes :
        /\ notes[i].ttl \in Int
        /\ notes[i].ttl >= 0 - 2
        /\ notes[i].orig_ttl \in Nat

\* the ticker ran over a note it had counted down to 0 and over a note whose
\* ttl is a sentinel
C13_Witness ==
    /\ lastOp = "tick"
    /\ Len(notes) = 2
    /\ notes[1].id \in ticked
    /\ notes[1].ttl = 0
    /\ notes[2].ttl = 0 - 1

\* what the filter is to return when a note passes by the test Passes(n)
Selected(ns, Passes(_)) == SelectSeq(ns, Passes)

FilterReturned == call.fn = "filtered" /\ ret.done

\* C14, as claimed: the filter returns the cached notes, in cache order, with
\* (query empty or text or tag contains the query, case folded) and (tag
\* filter empty or tag equal to it); filtering the result again changes nothing.
C14_FilterAsClaimed ==
    FilterReturned =>
        LET q == call.arg.q
            g == call.arg.showOnlyTag
            Passes(n) ==
                /\ \/ q = <<>>
                   \/ includes(toLowerCase(n.text), toLowerCase(q))
                   \/ includes(toLowerCase(n.tag), toLowerCase(q))
                /\ g = <<>> \/ n.tag = g
        IN  /\ ret.v = Selected(call.arg.notes, Passes)
            /\ filtered(ret.v, q, g) = ret.v

\* C14, amended: the same with "query empty" read as "query empty after
\* trimming": a query of white space only filters nothing out, and any other
\* query is looked for as typed, white space included.
C14_FilterTrimmedQuery ==
    FilterReturned =>
        LET q == call.arg.q
            g == call.arg.showOnlyTag
            Passes(n) ==
                /\ \/ Trim(q) = <<>>
                   \/ includes(toLowerCase(n.text), toLowerCase(q))
                   \/ includes(toLowerCase(n.tag), toLowerCase(q))
                /\ g = <<>> \/ n.tag = g
        IN  /\ ret.v = Selected(call.arg.notes, Passes)
            /\ filtered(ret.v, q, g) = ret.v

\* query "idea" with tag filter "goal" over two notes, of which the second
\* (text "IDEA", tag "goal") is returned and the first (tag "idea") is not
C14_Witness ==
    /\ FilterReturned
    /\ call.arg.q = Idea
    /\ call.arg.showOnlyTag = Goal
    /\ Len(call.arg.notes) = 2
    /\ call.arg.notes[1].tag = Idea
    /\ ret.v = <<[id |-> 1, text |-> <<"I", "D", "E", "A">>, tag |-> Goal]>>

FmtReturned == call.fn = "fmtTTL" /\ ret.done /\ call.arg.kind = "number"

\* the three numeric ranges of the format, as the claim words them
FmtRanges(k) ==
    IF k < 60 THEN Decimal(k) \o <<"s">>
    ELSE IF k <= 3599 THEN Decimal(k \div 60) \o <<"m">>
    ELSE Decimal(k \div 3600) \o <<"h">>

\* C15, as claimed: -2 formats as "gone", -1 as "no expiry", a value below 60
\* as "<secs>s", 60..3599 as "<floor(secs/60)>m", 3600 and more as
\* "<floor(secs/3600)>h".
C15_FmtAsClaimed ==
    FmtReturned =>
        ret.v = CASE call.arg.v = 0 - 2 -> <<"g", "o", "n", "e">>
                  [] call.arg.v = 0 - 1 ->
                        <<"n", "o", " ", "e", "x", "p", "i", "r", "y">>
                  [] OTHER -> FmtRanges(call.arg.v)

\* C15, amended: the same, except that -1 formats as the infinity sign.
C15_FmtInfinity ==
    FmtReturned =>
        /\ ret.v = CASE call.arg.v = 0 - 2 -> <<"g", "o", "n", "e">>
                     [] call.arg.v = 0 - 1 -> <<InfinitySign>>
                     [] OTHER -> FmtRanges(call.arg.v)
        /\ call.arg.v = 125 => ret.v = <<"2", "m">>
        /\ call.arg.v = 7300 => ret.v = <<"2", "h">>

C15_Witness == FmtReturned /\ call.arg.v = 0 - 1 /\ ret.v = <<InfinitySign>>

\* C16: whenever the theme effect has run (at startup, on the re-render that
\* startup asked for, on a toggle), the key holds "1" if the preference is
\* true and is absent if it is false, never "0", and reading it back gives
\* the preference; startup reads true exactly when the key held "1".
C16_PreferenceRoundTrip ==
    [][lastOp' \in {"mount", "darkRerender", "toggleDark"} =>
          /\ dark' => storage' = "1"
          /\ ~dark' => storage' = "absent"
          /\ loadDark(storage') = dark'
          /\ lastOp' = "mount" => ((phase' = "rerender") <=> (storage = "1"))]_vars

C16_Witness ==
    lastOp = "toggleDark" /\ ~dark /\ storage = "absent" /\ ~loadDark(storage)

\* a poll, a create or a delete has just failed and the client is mounted
FailedWhileMounted ==
    phase = "mounted" /\ lastOp \in {"listFail", "createFail", "deleteFail"}

\* C17: no failure stops the poller: while the client is mounted its interval
\* is armed, and after a failed poll, create or delete the interval fires
\* again and issues a list request, unless the client is torn down first.
C17_PollingSurvivesFailure ==
    /\ [](phase = "mounted" => pollTimer)
    /\ FailedWhileMounted ~> (lastOp = "pollFire" \/ phase = "unmounted")

\* a poll has failed over a cache that an earlier poll filled, and the
\* interval is still armed
C17_Witness ==
    /\ FailedWhileMounted
    /\ lastOp = "listFail"
    /\ notes # <<>>
    /\ listReqs = <<>>
    /\ pollTimer

\* C18: a successful list response is applied to the cache only if no
\* response to a request issued after its own has been applied before it.
C18_NoStaleOverwrite ==
    [][lastOp' = "listOk" =>
          \E i \in DOMAIN listReqs :
              /\ ~listReqs[i].stale
              /\ listReqs' = Answered(listReqs, i, TRUE)]_vars

\* C19: at most one create request is in flight, and loading is true exactly
\* while one is.
C19_SingleCreateInFlight ==
    /\ BagCardinality(createReqs) <= 1
    /\ loading <=> createReqs # EmptyBag

\* C20: a key that holds "1" keeps holding "1" through every step other than
\* a toggle of the theme, and the preference is true once startup is over.
C20_StoredThemeSurvivesStart ==
    [][/\ (storage = "1" /\ lastOp' # "toggleDark") => storage' = "1"
       /\ (storage = "1" /\ phase' = "mounted" /\ lastOp' # "toggleDark")
              => dark']_vars

=============================================================================
